---- MODULE Spec2Model ----
(***************************************************************************)
(* Conversation memory store (src/conversation_memory.py) and the request  *)
(* path that drives it (src/backend.py, src/endpoints.py).                  *)
(*                                                                         *)
(* The store pairs an in-memory vector index (FAISS IndexFlatIP) with an   *)
(* in-memory metadata list; both are saved to two files.  Request handlers *)
(* run in threads of one process; the process can be killed and restarted, *)
(* file writes and the embedding provider can fail.                        *)
(*                                                                         *)
(* Vectors are abstracted to a dimension, a direction (one of six unit     *)
(* directions of a plane, 60 degrees apart) and a norm class (1 = unit     *)
(* norm, 2 = not unit norm).  Similarities are inner products of unit      *)
(* vectors, scaled by 100.                                                 *)
(***************************************************************************)
EXTENDS Integers, Sequences, FiniteSets, TLC

\* ----------------------------------------------------------------- bounds
\* Number of add_entry calls of one behaviour (caps the id counter).
MaxAdds == 2
\* Number of process restarts of one behaviour.
MaxKills == 2
\* Number of entries of the stores a search is tried on.
MaxStored == 3

\* ----------------------------------------------------------------- inputs
Threads == {1, 2}
Sessions == {"s1", "s2"}
Texts == {"q1", "q2"}
\* Embedding dimensions of the models the store can be configured with.
Dimensions == {384, 768}

\* ------------------------------------------------------------- embeddings
\* The provider's map from text to direction (an opaque external model).
TextDir(text) == IF text = "q1" THEN 0 ELSE IF text = "q3" THEN 3 ELSE 1

\* encode(text, normalize_embeddings=True): a unit vector of the model's dimension.
CreateEmbedding(text, dim) == [dim |-> dim, dir |-> TextDir(text), norm |-> 1]

\* A value that is no vector (None, a string, ...).
NoEmbedding == [dim |-> 0, dir |-> 0, norm |-> 0]

\* faiss.normalize_L2: scales a vector to unit norm, keeps its direction.
NormalizeL2(v) == [v EXCEPT !.norm = 1]

\* Inner product of two unit vectors with directions a and b, times 100.
InnerProduct(a, b) ==
    LET k == (a - b + 6) % 6
    IN  CASE k = 0 -> 100
          [] k \in {1, 5} -> 50
          [] k \in {2, 4} -> 0 - 50
          [] OTHER -> 0 - 100

\* ------------------------------------------------------------------ index
\* faiss.IndexFlatIP(d): dimension d and the stored unit vectors' directions.
EmptyIndex(dim) == [d |-> dim, vecs |-> << >>]

NTotal(ix) == Len(ix.vecs)

\* The vector at ordinal i of an index.
IndexVector(ix, i) == [dim |-> ix.d, dir |-> ix.vecs[i], norm |-> 1]

\* index.add(x) is refused (AssertionError) unless x has the index's dimension.
IndexAddOk(ix, v) == v.dim = ix.d

IndexAdd(ix, v) == [ix EXCEPT !.vecs = Append(@, v.dir)]

\* ---------------------------------------------------------------- entries
\* dict.update(extra): every key of extra replaces the entry's value.
DictUpdate(entry, extra) ==
    [k \in DOMAIN entry |-> IF k \in DOMAIN extra THEN extra[k] ELSE entry[k]]

\* extra_metadata without any key of the entry (what process_query passes:
\* analysis_length, sql_length, processed_at).
NoExtra == [k \in {} |-> 0]

\* The calls of add_entry: caller, session_id, interaction text and
\* extra_metadata.  process_query passes no field of the entry as
\* extra_metadata; a direct caller may: here an "embedding" that is no vector,
\* and one that is a vector of dimension 384 without unit norm.
AddInputs ==
    { << "process_query", "s1", "q1", NoExtra >>,
      << "process_query", "s2", "q2", NoExtra >>,
      << "process_query", "s1", "q2", NoExtra >>,
      << "direct", "s2", "q1", [embedding |-> NoEmbedding] >>,
      << "direct", "s1", "q2",
         [embedding |-> [dim |-> 384, dir |-> 2, norm |-> 2]] >> }

\* The metadata_entry of add_entry.
MetadataEntry(id, sid, ts, text, emb, extra) ==
    DictUpdate([id |-> id, session_id |-> sid, timestamp |-> ts,
                text |-> text, embedding |-> emb], extra)

\* A persisted file: absent, or holding what was last written.
NoIndexFile == [exists |-> FALSE, index |-> EmptyIndex(0)]
NoMetadataFile == [exists |-> FALSE, entries |-> << >>]

\* _load_index: the file's index if the file exists, else a new empty one.
LoadIndex(file, dim) == IF file.exists THEN file.index ELSE EmptyIndex(dim)

\* _load_metadata
LoadMetadata(file) == IF file.exists THEN file.entries ELSE << >>

\* np.array([entry["embedding"] ...], dtype="float32") succeeds when every
\* entry holds a vector and all vectors have the same length.
EmbeddingsOk(entries) ==
    /\ \A i \in 1..Len(entries) : entries[i].embedding.dim # 0
    /\ \A i, j \in 1..Len(entries) :
          entries[i].embedding.dim = entries[j].embedding.dim

\* The rows handed to index.add by _rebuild_index_from_metadata.
RebuildRows(entries) ==
    [i \in 1..Len(entries) |-> NormalizeL2(entries[i].embedding)]

\* index.add(embeddings) for a batch: refused unless the rows have the
\* index's dimension.
IndexAddRowsOk(ix, rows) == \A i \in 1..Len(rows) : rows[i].dim = ix.d

IndexAddRows(ix, rows) ==
    [ix EXCEPT !.vecs = @ \o [i \in 1..Len(rows) |-> rows[i].dir]]

\* FilterOut with the bug of an inverted session test.
MutFilterOutKeepsSession(entries, sid) ==
    SelectSeq(entries, LAMBDA e : e.session_id = sid)

FilterOut(entries, sid) == SelectSeq(entries, LAMBDA e : e.session_id # sid)

\* ------------------------------------------------------------------ state
VARIABLES
    up,         \* the process runs and holds a constructed ConversationMemory
    dimension,  \* self.dimension: the configured model's embedding dimension
    metadata,   \* self.metadata: the in-memory metadata log
    index,      \* self.index: the in-memory vector index
    diskIndex,  \* the index file (memory.index)
    diskMeta,   \* the metadata file (metadata.json)
    nextId,     \* number of ids drawn so far (uuid4 never repeats)
    clock,      \* the wall clock read by datetime.utcnow()
    th,         \* per request handler thread: position and locals
    kills,      \* number of process kills so far
    killed,     \* history: the threads killed between an operation's two file
                \* writes or right after add_entry returned
    fresh,      \* history: the store was loaded and no call has started since
    loadError,  \* history: the exception of the last construction, "" if none
    pq          \* per request handler thread: its process_query request

vars == << up, dimension, metadata, index, diskIndex, diskMeta, nextId,
           clock, th, kills, killed, fresh, loadError, pq >>

NoEntry == [id |-> 0, session_id |-> "", timestamp |-> 0, text |-> "",
            embedding |-> NoEmbedding]

NoSnapshot == [metadata |-> << >>, index |-> EmptyIndex(0),
               diskIndex |-> NoIndexFile, diskMeta |-> NoMetadataFile]

Snapshot == [metadata |-> metadata, index |-> index,
             diskIndex |-> diskIndex, diskMeta |-> diskMeta]

\* A thread that runs no request.
Idle == [pc |-> "idle", op |-> "none", caller |-> "none", sid |-> "",
         text |-> "", extra |-> NoExtra, entry |-> NoEntry,
         emb |-> NoEmbedding, orig |-> 0, topk |-> 0, rows |-> << >>, hits |-> << >>,
         ks |-> 0, kg |-> 0, thr |-> 0, result |-> << >>, err |-> "",
         http |-> 0, pre |-> NoSnapshot]

AllIdle == [t \in Threads |-> Idle]

\* No process_query request: the locals of process_query and what it has
\* done so far (stage), "none" outside a request.
NoRequest == [stage |-> "none", query |-> "", session_id |-> "",
              active_session_id |-> "", reset_session |-> FALSE,
              searched |-> FALSE, search_error |-> "",
              memory_context_text |-> "", memory_context |-> << >>,
              memory_warning |-> "", sql_context |-> "none",
              steps |-> << >>, error |-> "", http |-> 0]

NoRequests == [t \in Threads |-> NoRequest]

\* The state after constructing the store on an empty directory with the
\* default model: nothing is written (0 = 0, no rebuild).
Init ==
    /\ up = TRUE
    /\ dimension = 384
    /\ metadata = << >>
    /\ index = EmptyIndex(384)
    /\ diskIndex = NoIndexFile
    /\ diskMeta = NoMetadataFile
    /\ nextId = 0
    /\ clock = 0
    /\ th = AllIdle
    /\ kills = 0
    /\ killed = AllIdle
    /\ fresh = TRUE
    /\ loadError = ""
    /\ pq = NoRequests

\* ---------------------------------------------------------------- process
\* The process is killed: memory and threads are lost, the files stay.
Kill ==
    /\ up
    /\ kills < MaxKills
    /\ kills' = kills + 1
    /\ up' = FALSE
    /\ killed' = [t \in Threads |->
                    IF \/ th[t].pc \in {"add_save_meta", "reset_save_meta"}
                       \/ /\ th[t].pc = "returned"
                          /\ th[t].op = "add_entry"
                          /\ th[t].err = ""
                    THEN th[t] ELSE Idle]
    /\ th' = AllIdle
    /\ metadata' = << >>
    /\ index' = EmptyIndex(0)
    /\ dimension' = 0
    /\ fresh' = FALSE
    /\ loadError' = ""
    /\ pq' = NoRequests
    /\ UNCHANGED << diskIndex, diskMeta, nextId, clock >>

\* RebuildOk with the bug of a rebuild that takes every record as it is.
MutRebuildOkAlways(entries, dim) == TRUE

\* _rebuild_index_from_metadata can build its index: the rows form an array
\* and have the new index's dimension.
RebuildOk(entries, dim) ==
    \/ entries = << >>
    \/ /\ EmbeddingsOk(entries)
       /\ IndexAddRowsOk(EmptyIndex(dim), RebuildRows(entries))

\* The index _rebuild_index_from_metadata builds.
RebuiltIndex(entries, dim) == IndexAddRows(EmptyIndex(dim), RebuildRows(entries))

\* __init__ found differing counts.
LoadMismatch(dim) ==
    NTotal(LoadIndex(diskIndex, dim)) # Len(LoadMetadata(diskMeta))

\* __init__ with a model of dimension dim, the counts agree: no rebuild.
LoadAsIs(dim) ==
    /\ ~up
    /\ ~LoadMismatch(dim)
    /\ up' = TRUE
    /\ dimension' = dim
    /\ index' = LoadIndex(diskIndex, dim)
    /\ metadata' = LoadMetadata(diskMeta)
    /\ fresh' = TRUE
    /\ loadError' = ""
    /\ UNCHANGED << diskIndex, diskMeta, nextId, clock, th, kills, killed, pq >>

\* LoadRebuild with the bug of a rebuild that never saves the new index.
MutLoadRebuildUnsaved(dim) ==
    /\ ~up
    /\ LoadMismatch(dim)
    /\ RebuildOk(LoadMetadata(diskMeta), dim)
    /\ up' = TRUE
    /\ dimension' = dim
    /\ metadata' = LoadMetadata(diskMeta)
    /\ index' = RebuiltIndex(LoadMetadata(diskMeta), dim)
    /\ fresh' = TRUE
    /\ loadError' = ""
    /\ UNCHANGED << diskIndex, diskMeta, nextId, clock, th, kills, killed, pq >>

\* __init__ with a model of dimension dim, the counts differ: the index is
\* rebuilt from the log and saved.
LoadRebuild(dim) ==
    /\ ~up
    /\ LoadMismatch(dim)
    /\ RebuildOk(LoadMetadata(diskMeta), dim)
    /\ up' = TRUE
    /\ dimension' = dim
    /\ metadata' = LoadMetadata(diskMeta)
    /\ index' = RebuiltIndex(LoadMetadata(diskMeta), dim)
    /\ diskIndex' = [exists |-> TRUE, index |-> index']
    /\ fresh' = TRUE
    /\ loadError' = ""
    /\ UNCHANGED << diskMeta, nextId, clock, th, kills, killed, pq >>

\* The exception _rebuild_index_from_metadata raises for a log it cannot
\* build an index from: np.array refuses records without a vector or with
\* vectors of different lengths, index.add refuses rows of another dimension.
RebuildError(entries, dim) ==
    IF entries = << >> THEN ""
    ELSE IF ~EmbeddingsOk(entries) THEN "ValueError"
    ELSE IF ~IndexAddRowsOk(EmptyIndex(dim), RebuildRows(entries))
    THEN "AssertionError"
    ELSE ""

\* __init__ raises: the rebuild cannot build the index, or writing the index
\* file fails.  No store is constructed and no file changes.
LoadFails(dim) ==
    /\ ~up
    /\ LoadMismatch(dim)
    /\ loadError' = IF RebuildOk(LoadMetadata(diskMeta), dim)
                    THEN "PersistenceError"
                    ELSE RebuildError(LoadMetadata(diskMeta), dim)
    /\ UNCHANGED << up, dimension, metadata, index, diskIndex, diskMeta, nextId,
                    clock, th, kills, killed, fresh, pq >>

Load(dim) == LoadAsIs(dim) \/ LoadRebuild(dim) \/ LoadFails(dim)

\* ---------------------------------------------------------------- threads
\* Thread t moves to the record r.
Goto(t, r) == th' = [th EXCEPT ![t] = r]

\* A call returns normally or raises err; a call made by process_query ends
\* the request with the endpoint's status (200, or 500 from its handler of
\* every exception).
Return(t, r, err) ==
    Goto(t, [r EXCEPT !.pc = "returned", !.err = err,
                      !.http = IF r.caller # "process_query" THEN 0
                               ELSE IF err = "" THEN 200 ELSE 500])

\* The caller takes the result; the thread is free again.
Finish(t) ==
    /\ up
    /\ th[t].pc = "returned"
    /\ Goto(t, Idle)
    /\ UNCHANGED << up, dimension, metadata, index, diskIndex, diskMeta,
                    nextId, clock, kills, killed, fresh >>

\* A call starts: the history of the last load ends.
StartsCall ==
    /\ fresh' = FALSE
    /\ killed' = AllIdle

\* ----------------------------------------------------------- add_entry
\* add_entry is called, by process_query (step 4, with extra_metadata that
\* names no field of the entry) or directly: it draws the id and the timestamp.
CallAddEntry(t, caller, sid, text, extra) ==
    /\ up
    /\ th[t].pc = "idle"
    /\ nextId < MaxAdds
    /\ nextId' = nextId + 1
    /\ clock' = clock + 1
    /\ Goto(t, [Idle EXCEPT !.pc = "add_embed", !.op = "add_entry",
                  !.caller = caller, !.sid = sid, !.text = text,
                  !.extra = extra,
                  !.entry = [NoEntry EXCEPT !.id = nextId',
                                            !.timestamp = clock'],
                  !.pre = Snapshot])
    /\ StartsCall
    /\ UNCHANGED << up, dimension, metadata, index, diskIndex, diskMeta, kills >>

\* _create_embedding, then the metadata_entry is built and updated with
\* extra_metadata.
AddEmbed(t) ==
    /\ up
    /\ th[t].pc = "add_embed"
    /\ LET emb == CreateEmbedding(th[t].text, dimension)
       IN  Goto(t, [th[t] EXCEPT !.pc = "add_append", !.emb = emb,
                      !.entry = MetadataEntry(th[t].entry.id, th[t].sid,
                                              th[t].entry.timestamp,
                                              th[t].text, emb, th[t].extra)])
    /\ UNCHANGED << up, dimension, metadata, index, diskIndex, diskMeta,
                    nextId, clock, kills, killed, fresh >>

\* AddEmbedFails with the bug of an entry appended to the log before its
\* embedding is computed.
MutAddEmbedFailsAfterAppend(t) ==
    /\ up
    /\ th[t].pc = "add_embed"
    /\ metadata' = Append(metadata, th[t].entry)
    /\ Return(t, th[t], "ProviderError")
    /\ UNCHANGED << up, dimension, index, diskIndex, diskMeta,
                    nextId, clock, kills, killed, fresh >>

\* The embedding provider raises in _create_embedding.
AddEmbedFails(t) ==
    /\ up
    /\ th[t].pc = "add_embed"
    /\ Return(t, th[t], "ProviderError")
    /\ UNCHANGED << up, dimension, metadata, index, diskIndex, diskMeta,
                    nextId, clock, kills, killed, fresh >>

\* AddAppend with the bug of an entry inserted at the front of the log.
MutAddAppendAtFront(t) ==
    /\ up
    /\ th[t].pc = "add_append"
    /\ metadata' = << th[t].entry >> \o metadata
    /\ Goto(t, [th[t] EXCEPT !.pc = "add_index"])
    /\ UNCHANGED << up, dimension, index, diskIndex, diskMeta,
                    nextId, clock, kills, killed, fresh >>

\* self.metadata.append(metadata_entry)
AddAppend(t) ==
    /\ up
    /\ th[t].pc = "add_append"
    /\ metadata' = Append(metadata, th[t].entry)
    /\ Goto(t, [th[t] EXCEPT !.pc = "add_index"])
    /\ UNCHANGED << up, dimension, index, diskIndex, diskMeta,
                    nextId, clock, kills, killed, fresh >>

\* self.index.add(embedding): raises when the index has another dimension.
AddIndex(t) ==
    /\ up
    /\ th[t].pc = "add_index"
    /\ IF IndexAddOk(index, th[t].emb)
       THEN /\ index' = IndexAdd(index, th[t].emb)
            /\ Goto(t, [th[t] EXCEPT !.pc = "add_save_index"])
       ELSE /\ index' = index
            /\ Return(t, th[t], "AssertionError")
    /\ UNCHANGED << up, dimension, metadata, diskIndex, diskMeta,
                    nextId, clock, kills, killed, fresh >>

\* self._save_index()
AddSaveIndex(t) ==
    /\ up
    /\ th[t].pc = "add_save_index"
    /\ diskIndex' = [exists |-> TRUE, index |-> index]
    /\ Goto(t, [th[t] EXCEPT !.pc = "add_save_meta"])
    /\ UNCHANGED << up, dimension, metadata, index, diskMeta,
                    nextId, clock, kills, killed, fresh >>

\* Writing the index file fails.
AddSaveIndexFails(t) ==
    /\ up
    /\ th[t].pc = "add_save_index"
    /\ Return(t, th[t], "PersistenceError")
    /\ UNCHANGED << up, dimension, metadata, index, diskIndex, diskMeta,
                    nextId, clock, kills, killed, fresh >>

\* self._save_metadata(); return metadata_entry
AddSaveMeta(t) ==
    /\ up
    /\ th[t].pc = "add_save_meta"
    /\ diskMeta' = [exists |-> TRUE, entries |-> metadata]
    /\ Return(t, th[t], "")
    /\ UNCHANGED << up, dimension, metadata, index, diskIndex,
                    nextId, clock, kills, killed, fresh >>

\* Writing the metadata file fails.
AddSaveMetaFails(t) ==
    /\ up
    /\ th[t].pc = "add_save_meta"
    /\ Return(t, th[t], "PersistenceError")
    /\ UNCHANGED << up, dimension, metadata, index, diskIndex, diskMeta,
                    nextId, clock, kills, killed, fresh >>

\* -------------------------------------------------------- reset_session
\* CallResetSession with the bug of an empty session_id that is reset like
\* any other.
MutCallResetSessionUnguarded(t, sid) ==
    /\ up
    /\ th[t].pc = "idle"
    /\ Goto(t, [Idle EXCEPT !.pc = "reset_filter", !.op = "reset_session",
                  !.caller = "direct", !.sid = sid, !.orig = Len(metadata),
                  !.pre = Snapshot])
    /\ StartsCall
    /\ UNCHANGED << up, dimension, metadata, index, diskIndex, diskMeta,
                    nextId, clock, kills >>

\* reset_session(session_id) is called: with an empty session_id it returns
\* at once; otherwise original_length = len(self.metadata).
CallResetSession(t, sid) ==
    /\ up
    /\ th[t].pc = "idle"
    /\ IF sid = ""
       THEN Return(t, [Idle EXCEPT !.op = "reset_session", !.caller = "direct",
                         !.sid = sid, !.pre = Snapshot], "")
       ELSE Goto(t, [Idle EXCEPT !.pc = "reset_filter", !.op = "reset_session",
                       !.caller = "direct", !.sid = sid, !.orig = Len(metadata),
                       !.pre = Snapshot])
    /\ StartsCall
    /\ UNCHANGED << up, dimension, metadata, index, diskIndex, diskMeta,
                    nextId, clock, kills >>

\* self.metadata = [entries of the other sessions]
ResetFilter(t) ==
    /\ up
    /\ th[t].pc = "reset_filter"
    /\ metadata' = FilterOut(metadata, th[t].sid)
    /\ Goto(t, [th[t] EXCEPT !.pc = "reset_check"])
    /\ UNCHANGED << up, dimension, index, diskIndex, diskMeta,
                    nextId, clock, kills, killed, fresh >>

\* ResetCheck with the bug of a rebuild whether or not an entry was removed.
MutResetCheckAlwaysRebuilds(t) ==
    /\ up
    /\ th[t].pc = "reset_check"
    /\ index' = EmptyIndex(dimension)
    /\ Goto(t, [th[t] EXCEPT !.pc = "reset_rows"])
    /\ UNCHANGED << up, dimension, metadata, diskIndex, diskMeta,
                    nextId, clock, kills, killed, fresh >>

\* if len(self.metadata) != original_length: the rebuild starts with
\* self.index = faiss.IndexFlatIP(self.dimension).  Otherwise the call returns.
ResetCheck(t) ==
    /\ up
    /\ th[t].pc = "reset_check"
    /\ IF Len(metadata) # th[t].orig
       THEN /\ index' = EmptyIndex(dimension)
            /\ Goto(t, [th[t] EXCEPT !.pc = "reset_rows"])
       ELSE /\ index' = index
            /\ Return(t, th[t], "")
    /\ UNCHANGED << up, dimension, metadata, diskIndex, diskMeta,
                    nextId, clock, kills, killed, fresh >>

\* _rebuild_index_from_metadata: with an empty log the empty index is saved;
\* otherwise the embeddings are gathered into an array and normalized.
ResetRows(t) ==
    /\ up
    /\ th[t].pc = "reset_rows"
    /\ IF metadata = << >>
       THEN Goto(t, [th[t] EXCEPT !.pc = "reset_save_index"])
       ELSE IF EmbeddingsOk(metadata)
       THEN Goto(t, [th[t] EXCEPT !.pc = "reset_add",
                                  !.rows = RebuildRows(metadata)])
       ELSE Return(t, th[t], "ValueError")
    /\ UNCHANGED << up, dimension, metadata, index, diskIndex, diskMeta,
                    nextId, clock, kills, killed, fresh >>

\* self.index.add(embeddings): raises when the rows have another dimension.
ResetAdd(t) ==
    /\ up
    /\ th[t].pc = "reset_add"
    /\ IF IndexAddRowsOk(index, th[t].rows)
       THEN /\ index' = IndexAddRows(index, th[t].rows)
            /\ Goto(t, [th[t] EXCEPT !.pc = "reset_save_index"])
       ELSE /\ index' = index
            /\ Return(t, th[t], "AssertionError")
    /\ UNCHANGED << up, dimension, metadata, diskIndex, diskMeta,
                    nextId, clock, kills, killed, fresh >>

\* self._save_index() at the end of the rebuild
ResetSaveIndex(t) ==
    /\ up
    /\ th[t].pc = "reset_save_index"
    /\ diskIndex' = [exists |-> TRUE, index |-> index]
    /\ Goto(t, [th[t] EXCEPT !.pc = "reset_save_meta"])
    /\ UNCHANGED << up, dimension, metadata, index, diskMeta,
                    nextId, clock, kills, killed, fresh >>

\* Writing the index file fails.
ResetSaveIndexFails(t) ==
    /\ up
    /\ th[t].pc = "reset_save_index"
    /\ Return(t, th[t], "PersistenceError")
    /\ UNCHANGED << up, dimension, metadata, index, diskIndex, diskMeta,
                    nextId, clock, kills, killed, fresh >>

\* self._save_metadata() after the rebuild
ResetSaveMeta(t) ==
    /\ up
    /\ th[t].pc = "reset_save_meta"
    /\ diskMeta' = [exists |-> TRUE, entries |-> metadata]
    /\ Return(t, th[t], "")
    /\ UNCHANGED << up, dimension, metadata, index, diskIndex,
                    nextId, clock, kills, killed, fresh >>

\* Writing the metadata file fails.
ResetSaveMetaFails(t) ==
    /\ up
    /\ th[t].pc = "reset_save_meta"
    /\ Return(t, th[t], "PersistenceError")
    /\ UNCHANGED << up, dimension, metadata, index, diskIndex, diskMeta,
                    nextId, clock, kills, killed, fresh >>

\* ---------------------------------------------------------------- search
\* Ordinals are positions 1..n of a sequence; faiss's label -1 (no vector)
\* is the ordinal 0.
\* The calls of search: session_id (a session, or "" for none),
\* top_k_session, top_k_global, similarity_threshold (times 100).
SearchInputs ==
    { << "s1", 1, 1, 50 >>, << "", 2, 1, 100 >> }

Min(a, b) == IF a <= b THEN a ELSE b
Max(a, b) == IF a >= b THEN a ELSE b

Score(ix, q, i) == InnerProduct(q.dir, ix.vecs[i])

\* The orders in which IndexFlatIP.search can return the k best of n vectors:
\* descending score; the library fixes no order among equal scores.
Rankings(ix, q, k) ==
    LET n == NTotal(ix)
        m == Min(k, n)
    IN  { h \in [1..m -> 1..n] :
            /\ \A i, j \in 1..m : i # j => h[i] # h[j]
            /\ \A i, j \in 1..m : i < j => Score(ix, q, h[i]) >= Score(ix, q, h[j])
            /\ \A o \in 1..n : (\A i \in 1..m : h[i] # o) =>
                  \A i \in 1..m : Score(ix, q, o) <= Score(ix, q, h[i]) }

\* index.search(q, k): k (label, score) pairs, padded with label -1 when the
\* index holds fewer than k vectors.
IndexSearch(ix, q, k) ==
    { [i \in 1..k |->
         IF i <= Len(h) THEN [idx |-> h[i], score |-> Score(ix, q, h[i])]
         ELSE [idx |-> 0, score |-> 0 - 1000]] : h \in Rankings(ix, q, k) }

\* ResultEntry with the bug of a copy that keeps the embedding.
MutResultEntryWithEmbedding(e, score) ==
    [id |-> e.id, session_id |-> e.session_id, timestamp |-> e.timestamp,
     text |-> e.text, embedding |-> e.embedding, similarity |-> score]

\* The entry search returns: every field but the embedding, plus the score.
ResultEntry(e, score) ==
    [id |-> e.id, session_id |-> e.session_id, timestamp |-> e.timestamp,
     text |-> e.text, similarity |-> score]

InSeq(x, seq) == \E i \in 1..Len(seq) : seq[i] = x

\* BelowThreshold with the bug of a search that applies no threshold.
MutBelowThresholdNever(score, thr) == FALSE

\* if float(score) < similarity_threshold: continue
BelowThreshold(score, thr) == score < thr

\* BucketHasRoom with the bug of buckets without capacity.
MutBucketHasRoomAlways(bucket, k) == TRUE

\* BucketHasRoom with the bug of a bucket that takes one entry too many.
MutBucketHasRoomOneMore(bucket, k) == Len(bucket) <= k

\* if len(session_results) < top_k_session, if len(global_results) < top_k_global
BucketHasRoom(bucket, k) == Len(bucket) < k

\* TopK with the bug of a search that asks the index for every vector.
MutTopKAll(n, ks, kg) == n

\* top_k = min(len(self.metadata), max(top_k_session, top_k_global) * 2)
TopK(n, ks, kg) == Min(n, Max(ks, kg) * 2)

\* IsSessionCandidate with the bug of a test that takes an empty session_id
\* for a session.
MutIsSessionCandidateUnguarded(sid, e) == e.session_id = sid

\* if session_id and entry.get("session_id") == session_id
IsSessionCandidate(sid, e) == sid # "" /\ e.session_id = sid

\* The loop of search over the candidates from position i on, with the two
\* buckets filled so far; yields both buckets.
RECURSIVE Walk(_, _, _, _, _, _, _, _)
Walk(log, hits, i, sid, ks, kg, thr, buckets) ==
    IF i > Len(hits) THEN buckets
    ELSE LET h == hits[i]
             sres == buckets[1]
             gres == buckets[2]
         IN  IF h.idx < 1 \/ h.idx > Len(log)
             THEN Walk(log, hits, i + 1, sid, ks, kg, thr, buckets)
             ELSE IF BelowThreshold(h.score, thr)
             THEN Walk(log, hits, i + 1, sid, ks, kg, thr, buckets)
             ELSE LET e == ResultEntry(log[h.idx], h.score)
                      next ==
                        IF IsSessionCandidate(sid, e)
                        THEN << IF BucketHasRoom(sres, ks) THEN Append(sres, e)
                                ELSE sres,
                                gres >>
                        ELSE << sres,
                                IF BucketHasRoom(gres, kg) THEN Append(gres, e)
                                ELSE gres >>
                  IN  IF Len(next[1]) >= ks /\ Len(next[2]) >= kg
                      THEN next
                      ELSE Walk(log, hits, i + 1, sid, ks, kg, thr, next)

\* Combined with the bug of a result that lists the global bucket first.
MutCombinedGlobalFirst(buckets, ks, kg) ==
    LET all == SelectSeq(buckets[2], LAMBDA e : ~InSeq(e, buckets[1])) \o buckets[1]
    IN  SubSeq(all, 1, Min(Len(all), ks + kg))

\* combined_results[: top_k_session + top_k_global]
Combined(buckets, ks, kg) ==
    LET all == buckets[1] \o SelectSeq(buckets[2], LAMBDA e : ~InSeq(e, buckets[1]))
    IN  SubSeq(all, 1, Min(Len(all), ks + kg))

\* CallSearch with the bug of a search that embeds the query first.
MutCallSearchAlwaysEmbeds(t, q, sid, ks, kg, thr) ==
    /\ up
    /\ th[t].pc = "idle"
    /\ Goto(t, [Idle EXCEPT !.pc = "search_embed", !.op = "search",
                  !.caller = "direct", !.sid = sid, !.text = q, !.ks = ks,
                  !.kg = kg, !.thr = thr, !.pre = Snapshot])
    /\ StartsCall
    /\ UNCHANGED << up, dimension, metadata, index, diskIndex, diskMeta,
                    nextId, clock, kills >>

\* search is called; an empty log or an empty index returns [] at once.
CallSearch(t, q, sid, ks, kg, thr) ==
    /\ up
    /\ th[t].pc = "idle"
    /\ LET r == [Idle EXCEPT !.op = "search", !.caller = "direct", !.sid = sid,
                             !.text = q, !.ks = ks, !.kg = kg, !.thr = thr,
                             !.pre = Snapshot]
       IN  IF metadata = << >> \/ NTotal(index) = 0
           THEN Return(t, r, "")
           ELSE Goto(t, [r EXCEPT !.pc = "search_embed"])
    /\ StartsCall
    /\ UNCHANGED << up, dimension, metadata, index, diskIndex, diskMeta,
                    nextId, clock, kills >>

\* embedding = self._create_embedding(query); top_k = min(len(self.metadata), ...)
SearchEmbed(t) ==
    /\ up
    /\ th[t].pc = "search_embed"
    /\ Goto(t, [th[t] EXCEPT !.pc = "search_index",
                  !.emb = CreateEmbedding(th[t].text, dimension),
                  !.topk = TopK(Len(metadata), th[t].ks, th[t].kg)])
    /\ UNCHANGED << up, dimension, metadata, index, diskIndex, diskMeta,
                    nextId, clock, kills, killed, fresh >>

\* The embedding provider raises in _create_embedding: search raises.
SearchEmbedFails(t) ==
    /\ up
    /\ th[t].pc = "search_embed"
    /\ Return(t, th[t], "ProviderError")
    /\ UNCHANGED << up, dimension, metadata, index, diskIndex, diskMeta,
                    nextId, clock, kills, killed, fresh >>

\* self.index.search(embedding, top_k): raises for a query of another
\* dimension than the index's, and for top_k = 0.
SearchIndex(t) ==
    /\ up
    /\ th[t].pc = "search_index"
    /\ IF th[t].emb.dim = index.d /\ th[t].topk > 0
       THEN \E hits \in IndexSearch(index, th[t].emb, th[t].topk) :
               Goto(t, [th[t] EXCEPT !.pc = "search_walk", !.hits = hits])
       ELSE Return(t, th[t], "AssertionError")
    /\ UNCHANGED << up, dimension, metadata, index, diskIndex, diskMeta,
                    nextId, clock, kills, killed, fresh >>

\* The loop over the candidates, reading self.metadata, and the return.
SearchWalk(t) ==
    /\ up
    /\ th[t].pc = "search_walk"
    /\ Return(t, [th[t] EXCEPT !.result =
                    Combined(Walk(metadata, th[t].hits, 1, th[t].sid, th[t].ks,
                                  th[t].kg, th[t].thr, << << >>, << >> >>),
                             th[t].ks, th[t].kg)], "")
    /\ UNCHANGED << up, dimension, metadata, index, diskIndex, diskMeta,
                    nextId, clock, kills, killed, fresh >>

\* ------------------------------------------- list_sessions, session history
\* sorted(entries, key=timestamp): a stable ascending sort.
RECURSIVE SortByTimestamp(_)
SortByTimestamp(seq) ==
    IF seq = << >> THEN << >>
    ELSE LET n == Len(seq)
             x == seq[n]
             front == SortByTimestamp(SubSeq(seq, 1, n - 1))
             p == Cardinality({i \in 1..Len(front) : front[i].timestamp <= x.timestamp})
         IN  SubSeq(front, 1, p) \o << x >> \o SubSeq(front, p + 1, Len(front))

\* sorted(sessions, key=latest_timestamp, reverse=True): a stable descending sort.
RECURSIVE SortByLatestDesc(_)
SortByLatestDesc(seq) ==
    IF seq = << >> THEN << >>
    ELSE LET n == Len(seq)
             x == seq[n]
             front == SortByLatestDesc(SubSeq(seq, 1, n - 1))
             p == Cardinality({i \in 1..Len(front) :
                                 front[i].latest_timestamp >= x.latest_timestamp})
         IN  SubSeq(front, 1, p) \o << x >> \o SubSeq(front, p + 1, Len(front))

\* The session summaries in the order their sessions first appear in the log.
RECURSIVE Summaries(_)
Summaries(log) ==
    IF log = << >> THEN << >>
    ELSE LET n == Len(log)
             e == log[n]
             front == Summaries(SubSeq(log, 1, n - 1))
         IN  IF \E i \in 1..Len(front) : front[i].session_id = e.session_id
             THEN [i \in 1..Len(front) |->
                     IF front[i].session_id = e.session_id
                     THEN [front[i] EXCEPT
                             !.count = @ + 1,
                             !.latest_timestamp =
                                 IF e.timestamp > @ THEN e.timestamp ELSE @]
                     ELSE front[i]]
             ELSE Append(front, [session_id |-> e.session_id, count |-> 1,
                                 latest_timestamp |-> e.timestamp])

\* ListSessions with the bug of summaries left in the order of first
\* appearance.
MutListSessionsUnsorted(t) ==
    /\ up
    /\ th[t].pc = "idle"
    /\ Return(t, [Idle EXCEPT !.op = "list_sessions", !.caller = "direct",
                    !.pre = Snapshot,
                    !.result = Summaries(metadata)], "")
    /\ StartsCall
    /\ UNCHANGED << up, dimension, metadata, index, diskIndex, diskMeta,
                    nextId, clock, kills >>

\* list_sessions()
ListSessions(t) ==
    /\ up
    /\ th[t].pc = "idle"
    /\ Return(t, [Idle EXCEPT !.op = "list_sessions", !.caller = "direct",
                    !.pre = Snapshot,
                    !.result = SortByLatestDesc(Summaries(metadata))], "")
    /\ StartsCall
    /\ UNCHANGED << up, dimension, metadata, index, diskIndex, diskMeta,
                    nextId, clock, kills >>

\* GetSessionHistory with the bug of a result left in log order.
MutGetSessionHistoryUnsorted(t, sid) ==
    /\ up
    /\ th[t].pc = "idle"
    /\ Return(t, [Idle EXCEPT !.op = "get_session_history", !.caller = "direct",
                    !.sid = sid, !.pre = Snapshot,
                    !.result =
                      IF sid = "" THEN << >>
                      ELSE SelectSeq(metadata, LAMBDA e : e.session_id = sid)],
              "")
    /\ StartsCall
    /\ UNCHANGED << up, dimension, metadata, index, diskIndex, diskMeta,
                    nextId, clock, kills >>

\* get_session_history(session_id)
GetSessionHistory(t, sid) ==
    /\ up
    /\ th[t].pc = "idle"
    /\ Return(t, [Idle EXCEPT !.op = "get_session_history", !.caller = "direct",
                    !.sid = sid, !.pre = Snapshot,
                    !.result =
                      IF sid = "" THEN << >>
                      ELSE SortByTimestamp(
                             SelectSeq(metadata, LAMBDA e : e.session_id = sid))],
              "")
    /\ StartsCall
    /\ UNCHANGED << up, dimension, metadata, index, diskIndex, diskMeta,
                    nextId, clock, kills >>

\* ---------------------------------------------------------- process_query
\* The requests of POST /query: query text ("" when the body has none),
\* session_id ("" when the body has none) and reset_session.
QueryInputs ==
    { << "q1", "s1", FALSE >>, << "q2", "s1", FALSE >>, << "q1", "s2", FALSE >>,
      << "q2", "", FALSE >>, << "q1", "s1", TRUE >>, << "q2", "", TRUE >>,
      << "", "s1", FALSE >> }

\* f"session_{uuid.uuid4().hex[:12]}": an id no earlier request was given
\* (n counts the entries added so far).
GeneratedSession(n) == << "g1", "g2", "g3", "g4" >>[n + 1]

\* The limits QueryProcessor passes to search: top_k_session, top_k_global
\* and similarity_threshold (times 100).
MemoryLimits == << 4, 2, 50 >>

\* The request of thread t moves to the record r.
PqGoto(t, r) == pq' = [pq EXCEPT ![t] = r]

\* The request ends with an HTTP status: 200 with the result, 400 with the
\* error a step reported, 500 for an exception.
PqRespond(t, r, error, http) ==
    PqGoto(t, [r EXCEPT !.stage = "done", !.error = error, !.http = http])

\* The fields of a memory entry process_query copies into memory_context.
Sanitized(entries) ==
    [i \in 1..Len(entries) |->
        [session_id |-> entries[i].session_id, timestamp |-> entries[i].timestamp,
         text |-> entries[i].text, similarity |-> entries[i].similarity]]

\* PqCall with the bug of a reset_session flag that resets nothing.
MutPqCallNeverResets(t, q, sid, reset) ==
    /\ up
    /\ th[t].pc = "idle"
    /\ pq[t].stage = "none"
    /\ nextId < MaxAdds
    /\ LET r == [NoRequest EXCEPT
                   !.query = q, !.session_id = sid, !.reset_session = reset,
                   !.active_session_id =
                       IF sid # "" THEN sid ELSE GeneratedSession(nextId)]
       IN  IF q = ""
           THEN PqRespond(t, [NoRequest EXCEPT !.session_id = sid,
                                               !.reset_session = reset],
                          "Query parameter is required", 400)
           ELSE PqGoto(t, [r EXCEPT !.stage =
                             IF ~reset THEN "context" ELSE "sql"])
    /\ UNCHANGED << up, dimension, metadata, index, diskIndex, diskMeta, nextId,
                    clock, th, kills, killed, fresh, loadError >>

\* POST /query arrives: without a query the endpoint answers 400; otherwise
\* process_query starts and chooses the active session id.
PqCall(t, q, sid, reset) ==
    /\ up
    /\ th[t].pc = "idle"
    /\ pq[t].stage = "none"
    /\ nextId < MaxAdds
    /\ LET r == [NoRequest EXCEPT
                   !.query = q, !.session_id = sid, !.reset_session = reset,
                   !.active_session_id =
                       IF sid # "" THEN sid ELSE GeneratedSession(nextId)]
       IN  IF q = ""
           THEN PqRespond(t, [NoRequest EXCEPT !.session_id = sid,
                                               !.reset_session = reset],
                          "Query parameter is required", 400)
           ELSE PqGoto(t, [r EXCEPT !.stage =
                             IF reset /\ sid # "" THEN "reset"
                             ELSE IF ~reset THEN "context" ELSE "sql"])
    /\ UNCHANGED << up, dimension, metadata, index, diskIndex, diskMeta, nextId,
                    clock, th, kills, killed, fresh, loadError >>

\* if reset_session and session_id: self.memory.reset_session(session_id)
PqReset(t) ==
    /\ pq[t].stage = "reset"
    /\ CallResetSession(t, pq[t].session_id)
    /\ PqGoto(t, [pq[t] EXCEPT !.stage = "resetting",
                               !.steps = Append(@, "reset_session")])
    /\ UNCHANGED loadError

\* reset_session returns (no retrieval follows a reset), or raises out of
\* process_query.
PqResetReturns(t) ==
    /\ up
    /\ pq[t].stage = "resetting"
    /\ th[t].pc = "returned"
    /\ Goto(t, Idle)
    /\ IF th[t].err = ""
       THEN PqGoto(t, [pq[t] EXCEPT !.stage = "sql"])
       ELSE PqRespond(t, pq[t], "Internal server error", 500)
    /\ UNCHANGED << up, dimension, metadata, index, diskIndex, diskMeta, nextId,
                    clock, kills, killed, fresh, loadError >>

\* _build_conversation_context calls self.memory.search with the active
\* session id and the configured limits.
PqContext(t) ==
    /\ pq[t].stage = "context"
    /\ CallSearch(t, pq[t].query, pq[t].active_session_id,
                  MemoryLimits[1], MemoryLimits[2], MemoryLimits[3])
    /\ PqGoto(t, [pq[t] EXCEPT !.stage = "searching",
                               !.steps = Append(@, "search")])
    /\ UNCHANGED loadError

\* PqContextReturns with the bug of a retrieval failure that is not caught.
MutPqContextReturnsAborts(t) ==
    /\ up
    /\ pq[t].stage = "searching"
    /\ th[t].pc = "returned"
    /\ Goto(t, Idle)
    /\ IF th[t].err # ""
       THEN PqRespond(t, [pq[t] EXCEPT !.search_error = th[t].err],
                      "Internal server error", 500)
       ELSE PqGoto(t, [pq[t] EXCEPT
                  !.stage = "sql",
                  !.memory_context_text =
                      IF th[t].result = << >> THEN "" ELSE "Context #1",
                  !.memory_context = Sanitized(th[t].result)])
    /\ UNCHANGED << up, dimension, metadata, index, diskIndex, diskMeta, nextId,
                    clock, kills, killed, fresh, loadError >>

\* search returns or raises: _build_conversation_context turns every
\* exception into a warning text and no entries; process_query moves the
\* warning to memory_warning and goes on with an empty context.
PqContextReturns(t) ==
    /\ up
    /\ pq[t].stage = "searching"
    /\ th[t].pc = "returned"
    /\ Goto(t, Idle)
    /\ PqGoto(t, [pq[t] EXCEPT
          !.stage = "sql",
          !.search_error = th[t].err,
          !.memory_warning =
              IF th[t].err # "" THEN "Conversation memory unavailable" ELSE "",
          !.memory_context_text =
              IF th[t].err # "" \/ th[t].result = << >> THEN "" ELSE "Context #1",
          !.memory_context =
              IF th[t].err # "" THEN << >> ELSE Sanitized(th[t].result)])
    /\ UNCHANGED << up, dimension, metadata, index, diskIndex, diskMeta, nextId,
                    clock, kills, killed, fresh, loadError >>

\* PqPrimary with the bug of a reported error that does not end the request.
MutPqPrimaryIgnoresError(t, stage, next) ==
    /\ up
    /\ pq[t].stage = stage
    /\ \E ok \in BOOLEAN :
          LET r == [pq[t] EXCEPT
                      !.steps = Append(@, stage),
                      !.sql_context = IF stage = "sql"
                                      THEN pq[t].memory_context_text ELSE @]
          IN  PqGoto(t, [r EXCEPT !.stage = next,
                                  !.error = IF ok THEN @ ELSE stage])
    /\ UNCHANGED << up, dimension, metadata, index, diskIndex, diskMeta, nextId,
                    clock, th, kills, killed, fresh, loadError >>

\* One step of the primary task (an LLM or database call) runs from stage to
\* next: it returns a value, or an error that ends the request with 400.
PqPrimary(t, stage, next) ==
    /\ up
    /\ pq[t].stage = stage
    /\ \E ok \in BOOLEAN :
          LET r == [pq[t] EXCEPT
                      !.steps = Append(@, stage),
                      !.sql_context = IF stage = "sql"
                                      THEN pq[t].memory_context_text ELSE @]
          IN  IF ok THEN PqGoto(t, [r EXCEPT !.stage = next])
              ELSE PqRespond(t, r, stage, 400)
    /\ UNCHANGED << up, dimension, metadata, index, diskIndex, diskMeta, nextId,
                    clock, th, kills, killed, fresh, loadError >>

\* Step 1: self.llm.generate_sql_query(query, conversation_context)
PqGenerateSql(t) == PqPrimary(t, "sql", "execute")

\* Step 2: self.db.execute_query(sql_query)
PqExecute(t) == PqPrimary(t, "execute", "analyze")

\* Step 3: self.llm.analyze_data(...)
PqAnalyze(t) == PqPrimary(t, "analyze", "persist")

\* Step 4: self.memory.add_entry(active_session_id, ...)
PqPersist(t) ==
    /\ pq[t].stage = "persist"
    /\ CallAddEntry(t, "process_query", pq[t].active_session_id, pq[t].query,
                    NoExtra)
    /\ PqGoto(t, [pq[t] EXCEPT !.stage = "persisting",
                               !.steps = Append(@, "add_entry")])
    /\ UNCHANGED loadError

\* add_entry returns and process_query returns its result, or add_entry
\* raises out of process_query.
PqPersistReturns(t) ==
    /\ up
    /\ pq[t].stage = "persisting"
    /\ th[t].pc = "returned"
    /\ Goto(t, Idle)
    /\ IF th[t].err = ""
       THEN PqRespond(t, pq[t], "", 200)
       ELSE PqRespond(t, pq[t], "Internal server error", 500)
    /\ UNCHANGED << up, dimension, metadata, index, diskIndex, diskMeta, nextId,
                    clock, kills, killed, fresh, loadError >>

\* The response is sent; the thread is free again.
PqDone(t) ==
    /\ up
    /\ pq[t].stage = "done"
    /\ PqGoto(t, NoRequest)
    /\ UNCHANGED << up, dimension, metadata, index, diskIndex, diskMeta, nextId,
                    clock, th, kills, killed, fresh, loadError >>

\* ------------------------------------------------------- specifications
\* One step of a request handler thread.
Step(t) ==
    \/ \E a \in AddInputs : CallAddEntry(t, a[1], a[2], a[3], a[4])
    \/ AddEmbed(t)
    \/ AddEmbedFails(t)
    \/ AddAppend(t)
    \/ AddIndex(t)
    \/ AddSaveIndex(t)
    \/ AddSaveIndexFails(t)
    \/ AddSaveMeta(t)
    \/ AddSaveMetaFails(t)
    \/ \E sid \in Sessions : CallResetSession(t, sid)
    \/ ResetFilter(t)
    \/ ResetCheck(t)
    \/ ResetRows(t)
    \/ ResetAdd(t)
    \/ ResetSaveIndex(t)
    \/ ResetSaveIndexFails(t)
    \/ ResetSaveMeta(t)
    \/ ResetSaveMetaFails(t)
    \/ \E q \in Texts, a \in SearchInputs :
          CallSearch(t, q, a[1], a[2], a[3], a[4])
    \/ SearchEmbed(t)
    \/ SearchEmbedFails(t)
    \/ SearchIndex(t)
    \/ SearchWalk(t)
    \/ ListSessions(t)
    \/ \E sid \in Sessions : GetSessionHistory(t, sid)
    \/ Finish(t)

\* One caller at a time: every operation runs to its end, or to a kill of the
\* process, before the next one starts.
Next ==
    \/ Kill
    \/ \E dim \in Dimensions : Load(dim)
    \/ Step(1) /\ UNCHANGED << loadError, pq >>

Spec == Init /\ [][Next]_vars

\* Two request handlers of the threaded server run at once.  Both serve
\* process_query's add_entry; handler 1 also serves reset_session and handler
\* 2 search, so that every pair the store must serialize occurs (add with add,
\* add with reset, search with add, search with reset).  The process stays
\* up, the provider and the file writes succeed.
ConcStep(t) ==
    \/ \E a \in AddInputs :
          /\ a[1] = "process_query"
          /\ TextDir(a[3]) = IF a[2] = "s1" THEN 0 ELSE 1
          /\ CallAddEntry(t, a[1], a[2], a[3], a[4])
    \/ AddEmbed(t)
    \/ AddAppend(t)
    \/ AddIndex(t)
    \/ AddSaveIndex(t)
    \/ AddSaveMeta(t)
    \/ \E sid \in Sessions : t = 1 /\ CallResetSession(t, sid)
    \/ ResetFilter(t)
    \/ ResetCheck(t)
    \/ ResetRows(t)
    \/ ResetAdd(t)
    \/ ResetSaveIndex(t)
    \/ ResetSaveMeta(t)
    \/ \E q \in Texts, a \in SearchInputs :
          t = 2 /\ a[1] # "" /\ CallSearch(t, q, a[1], a[2], a[3], a[4])
    \/ SearchEmbed(t)
    \/ SearchIndex(t)
    \/ SearchWalk(t)
    \/ Finish(t)

NextConc == \E t \in Threads : ConcStep(t) /\ UNCHANGED << loadError, pq >>

SpecConc == Init /\ [][NextConc]_vars

\* The steps of a store call made inside a process_query request.
PqInner(t) ==
    \/ AddEmbed(t)
    \/ AddEmbedFails(t)
    \/ AddAppend(t)
    \/ AddIndex(t)
    \/ AddSaveIndex(t)
    \/ AddSaveIndexFails(t)
    \/ AddSaveMeta(t)
    \/ AddSaveMetaFails(t)
    \/ ResetFilter(t)
    \/ ResetCheck(t)
    \/ ResetRows(t)
    \/ ResetAdd(t)
    \/ ResetSaveIndex(t)
    \/ ResetSaveIndexFails(t)
    \/ ResetSaveMeta(t)
    \/ ResetSaveMetaFails(t)
    \/ SearchEmbed(t)
    \/ SearchEmbedFails(t)
    \/ SearchIndex(t)
    \/ SearchWalk(t)

\* One step of a request handler thread serving POST /query.
PqStep(t) ==
    \/ \E a \in QueryInputs : PqCall(t, a[1], a[2], a[3])
    \/ PqReset(t)
    \/ PqResetReturns(t)
    \/ PqContext(t)
    \/ PqContextReturns(t)
    \/ PqGenerateSql(t)
    \/ PqExecute(t)
    \/ PqAnalyze(t)
    \/ PqPersist(t)
    \/ PqPersistReturns(t)
    \/ PqDone(t)
    \/ PqInner(t) /\ UNCHANGED << loadError, pq >>

\* The store is driven by POST /query requests only, one at a time; the
\* process can be killed and restarted, the provider, the LLM, the database
\* and the file writes can fail.
NextPq ==
    \/ Kill
    \/ \E dim \in Dimensions : Load(dim)
    \/ PqStep(1)

SpecPq == Init /\ [][NextPq]_vars

\* ----------------------------------------------------- search on a store
\* The interaction texts of stored entries: equal to the query "q1", near
\* it, and opposite to it.
StoredTexts == {"q1", "q2", "q3"}

\* The log add_entry builds, called without extra_metadata once per item
\* << session_id, text >>, and the index and the files that go with it.
StoredLog(items) ==
    [i \in 1..Len(items) |->
        MetadataEntry(i, items[i][1], i, items[i][2],
                      CreateEmbedding(items[i][2], 384), NoExtra)]

StoredIndex(items) ==
    [d |-> 384, vecs |-> [i \in 1..Len(items) |-> TextDir(items[i][2])]]

\* The state after one successful add_entry per item on an empty store.
InitStored(items) ==
    /\ up = TRUE
    /\ dimension = 384
    /\ metadata = StoredLog(items)
    /\ index = StoredIndex(items)
    /\ diskIndex = [exists |-> items # << >>, index |->
                       IF items # << >> THEN StoredIndex(items) ELSE EmptyIndex(0)]
    /\ diskMeta = [exists |-> items # << >>, entries |-> StoredLog(items)]
    /\ nextId = Len(items)
    /\ clock = Len(items)
    /\ th = AllIdle
    /\ kills = 0
    /\ killed = AllIdle
    /\ fresh = FALSE
    /\ loadError = ""
    /\ pq = NoRequests

\* The session_id arguments of the store's callers: add_entry takes any
\* string, the empty one included.
StoreSessions == Sessions \cup {""}

\* Every store of up to MaxStored entries.
InitSearch ==
    \E n \in 0..MaxStored :
        \E items \in [1..n -> StoreSessions \X StoredTexts] : InitStored(items)

\* The calls of search tried on these stores: session_id, top_k_session,
\* top_k_global, similarity_threshold (times 100).
SearchCalls ==
    SearchInputs \cup
    { << "s1", 1, 2, 50 >>, << "s2", 2, 1, 0 - 50 >>, << "s1", 0, 1, 50 >> }

\* Searches on a store that no other call changes.
NextSearch ==
    /\ \/ \E q \in Texts, a \in SearchCalls :
             CallSearch(1, q, a[1], a[2], a[3], a[4])
       \/ SearchEmbed(1)
       \/ SearchEmbedFails(1)
       \/ SearchIndex(1)
       \/ SearchWalk(1)
       \/ Finish(1)
    /\ UNCHANGED << loadError, pq >>

SpecSearch == InitSearch /\ [][NextSearch]_vars

\* ------------------------------------------------- the quota scenario
\* Stores of five entries of s1 and five of s2 that all have the text of
\* the query "q1" (similarity 1.0): s1's entries first, and alternating.
QuotaStores ==
    { [i \in 1..10 |-> << IF i <= 5 THEN "s1" ELSE "s2", "q1" >>],
      [i \in 1..10 |-> << IF i % 2 = 1 THEN "s1" ELSE "s2", "q1" >>] }

InitQuota == \E items \in QuotaStores : InitStored(items)

\* search("q1", session_id="s1", top_k_session=3, top_k_global=2,
\* similarity_threshold=0.5) on such a store.
NextQuota ==
    /\ \/ CallSearch(1, "q1", "s1", 3, 2, 50)
       \/ SearchEmbed(1)
       \/ SearchIndex(1)
       \/ SearchWalk(1)
       \/ Finish(1)
    /\ UNCHANGED << loadError, pq >>

SpecQuota == InitQuota /\ [][NextQuota]_vars

\* ------------------------------------------- the store's calls on a store
\* The log of one add_entry per session of sids, all with the text "q1";
\* entry i carries the timestamp ts[i].  Timestamps need not ascend along
\* the log: add_entry reads the clock (line 108) before it appends (line
\* 133), so concurrent calls append in either order, and the wall clock can
\* stand still or step back.
StampedLog(sids, ts) ==
    [i \in 1..Len(sids) |->
        MetadataEntry(i, sids[i], ts[i], "q1", CreateEmbedding("q1", 384), NoExtra)]

\* The state after these calls.
InitStamped(sids, ts) ==
    /\ up = TRUE
    /\ dimension = 384
    /\ metadata = StampedLog(sids, ts)
    /\ index = StoredIndex([i \in 1..Len(sids) |-> << sids[i], "q1" >>])
    /\ diskIndex = [exists |-> sids # << >>, index |->
                       IF sids # << >> THEN index ELSE EmptyIndex(0)]
    /\ diskMeta = [exists |-> sids # << >>, entries |-> metadata]
    /\ nextId = Len(sids)
    /\ clock = Len(sids)
    /\ th = AllIdle
    /\ kills = 0
    /\ killed = AllIdle
    /\ fresh = FALSE
    /\ loadError = ""
    /\ pq = NoRequests

\* Every store of up to MaxStored entries with timestamps up to its size.
InitStore ==
    \E n \in 0..MaxStored :
        \E sids \in [1..n -> StoreSessions], ts \in [1..n -> 1..n] :
            InitStamped(sids, ts)

\* The calls of add_entry of any caller of the store: those of AddInputs,
\* and extra_metadata that names the entry's id, session_id or timestamp.
ApiAddInputs ==
    AddInputs \cup
    { << "direct", "s1", "q1", [id |-> 1] >>,
      << "direct", "s1", "q2", [session_id |-> "s2"] >>,
      << "direct", "s2", "q1", [timestamp |-> 0] >>,
      << "direct", "", "q1", NoExtra >> }

\* One caller at a time calls the store; the process stays up, the provider
\* and the file writes succeed.
NextStore ==
    /\ \/ \E a \in ApiAddInputs : CallAddEntry(1, a[1], a[2], a[3], a[4])
       \/ AddEmbed(1)
       \/ AddAppend(1)
       \/ AddIndex(1)
       \/ AddSaveIndex(1)
       \/ AddSaveMeta(1)
       \/ \E sid \in StoreSessions : CallResetSession(1, sid)
       \/ ResetFilter(1)
       \/ ResetCheck(1)
       \/ ResetRows(1)
       \/ ResetAdd(1)
       \/ ResetSaveIndex(1)
       \/ ResetSaveMeta(1)
       \/ ListSessions(1)
       \/ \E sid \in StoreSessions : GetSessionHistory(1, sid)
       \/ Finish(1)
    /\ UNCHANGED << loadError, pq >>

SpecStore == InitStore /\ [][NextStore]_vars

\* ================================================================= claims
\* A public operation has completed: no thread is inside a call and some
\* call has just returned normally, or the store has just been constructed.
OperationCompleted ==
    /\ up
    /\ \A t \in Threads : th[t].pc \in {"idle", "returned"}
    /\ \/ fresh
       \/ \E t \in Threads : th[t].pc = "returned" /\ th[t].err = ""

\* Ordinal i of the index ix holds the embedding recorded in entry i of log.
OrdinalsCorrespond(log, ix) ==
    \A i \in 1..Len(log) :
        i <= NTotal(ix) /\ IndexVector(ix, i) = log[i].embedding

\* C1: after every completed public operation the metadata log and the
\* vector index hold the same number of entries.
C1_CountsEqual == OperationCompleted => Len(metadata) = NTotal(index)

\* C2: after every completed public operation the vector at every ordinal
\* of the index is the embedding recorded in the log entry at that ordinal.
C2_OrdinalsCorrespond == OperationCompleted => OrdinalsCorrespond(metadata, index)

\* C3: every entry search returns carries the similarity of the query to
\* that entry's own embedding (the one computed from its text), also when
\* add_entry or reset_session runs in another handler meanwhile.
C3_SearchPairsOwnScore ==
    \A t \in Threads :
        (up /\ th[t].op = "search" /\ th[t].pc = "returned" /\ th[t].err = "") =>
            \A i \in 1..Len(th[t].result) :
                th[t].result[i].similarity =
                    InnerProduct(TextDir(th[t].text), TextDir(th[t].result[i].text))

\* Both files hold what memory holds.
DiskMatchesMemory ==
    /\ diskIndex = [exists |-> TRUE, index |-> index]
    /\ diskMeta = [exists |-> TRUE, entries |-> metadata]

\* C4: once two concurrent mutating operations have both returned, the store
\* is in a state a serial execution produces: the entries of two add_entry
\* calls are both in the log, the counts are equal and ordinal i of the index
\* holds the embedding of log entry i, in memory and on disk.
C4_MutationsSerialize ==
    (/\ up
     /\ \A t \in Threads :
          /\ th[t].pc = "returned"
          /\ th[t].op \in {"add_entry", "reset_session"}
          /\ th[t].err = "") =>
        /\ Len(metadata) = NTotal(index)
        /\ OrdinalsCorrespond(metadata, index)
        /\ DiskMatchesMemory
        /\ (\A t \in Threads : th[t].op = "add_entry") =>
              \A t \in Threads : InSeq(th[t].entry, metadata)

\* The results an uninterrupted search(q, sid, ks, kg, thr) can return in
\* the current state (one per order the index may give to equal scores);
\* empty when search raises.
SearchOutcomes(q, sid, ks, kg, thr) ==
    IF metadata = << >> \/ NTotal(index) = 0 THEN { << >> }
    ELSE IF dimension # index.d THEN {}
    ELSE { Combined(Walk(metadata, hits, 1, sid, ks, kg, thr, << << >>, << >> >>),
                    ks, kg) :
             hits \in IndexSearch(index, CreateEmbedding(q, dimension),
                                  TopK(Len(metadata), ks, kg)) }

\* The store has been loaded after a kill that hit thread t at position pc.
LoadedAfterKillAt(t, pc) == up /\ fresh /\ killed[t].pc = pc

\* C5: after a kill between the two file writes of add_entry and the next
\* load, a search for the interrupted entry's text (with process_query's
\* limits 4, 2 and 0.5) finds that entry with the maximal similarity.
C5_CrashedEntryFound ==
    \A t \in Threads :
        LoadedAfterKillAt(t, "add_save_meta") =>
            LET e == killed[t].entry
                outcomes == SearchOutcomes(e.text, e.session_id, 4, 2, 50)
            IN  /\ outcomes # {}
                /\ \A res \in outcomes :
                      \E i \in 1..Len(res) :
                          res[i].id = e.id /\ res[i].similarity = 100

\* The log and the index vectors the interrupted call of thread record r
\* leaves when it runs to its end.
StateAfter(r) ==
    IF r.op = "add_entry"
    THEN [metadata |-> Append(r.pre.metadata, r.entry),
          vecs |-> Append(r.pre.index.vecs, r.emb.dir)]
    ELSE [metadata |-> FilterOut(r.pre.metadata, r.sid),
          vecs |-> [i \in 1..Len(FilterOut(r.pre.metadata, r.sid)) |->
                       FilterOut(r.pre.metadata, r.sid)[i].embedding.dir]]

\* C6: the store loaded after a kill between the two file writes of
\* add_entry or reset_session is consistent and holds either the complete
\* state before the interrupted call or the complete state after it.
C6_CrashAtomic ==
    \A t \in Threads :
        (LoadedAfterKillAt(t, "add_save_meta")
           \/ LoadedAfterKillAt(t, "reset_save_meta")) =>
            /\ Len(metadata) = NTotal(index)
            /\ OrdinalsCorrespond(metadata, index)
            /\ \/ /\ metadata = killed[t].pre.metadata
                  /\ index.vecs = killed[t].pre.index.vecs
               \/ /\ metadata = StateAfter(killed[t]).metadata
                  /\ index.vecs = StateAfter(killed[t]).vecs

\* C7: a load that finds the index file's count different from the log
\* file's leaves the log as it is, replaces the index by the log's stored
\* embeddings (normalized) in log order and writes that index to the index
\* file, so that the files' counts agree for the load that follows.
C7_LoadRebuildsFromLog ==
    [][ (/\ ~up
         /\ up'
         /\ NTotal(LoadIndex(diskIndex, dimension')) # Len(LoadMetadata(diskMeta))) =>
            /\ diskMeta' = diskMeta
            /\ metadata' = LoadMetadata(diskMeta)
            /\ index'.d = dimension'
            /\ NTotal(index') = Len(metadata')
            /\ \A i \in 1..Len(metadata') :
                  IndexVector(index', i) = NormalizeL2(metadata'[i].embedding)
            /\ diskIndex' = [exists |-> TRUE, index |-> index']
            /\ \A dim \in Dimensions :
                  NTotal(LoadIndex(diskIndex', dim)) = Len(LoadMetadata(diskMeta')) ]_vars

\* C7 witness: a store loaded after reset_session was killed between its
\* writes: the log file held more entries than the index file, and the
\* rebuilt index holds the vectors of two entries.
C7_Witness ==
    /\ LoadedAfterKillAt(1, "reset_save_meta")
    /\ Len(metadata) = 2
    /\ NTotal(index) = 2
    /\ Len(killed[1].pre.diskIndex.index.vecs) = 2

\* C8: add_entry that fails on a file write has rolled the in-memory log
\* and index back to their contents before the call.
C8_AddRollsBack ==
    \A t \in Threads :
        (/\ up
         /\ th[t].op = "add_entry"
         /\ th[t].pc = "returned"
         /\ th[t].err = "PersistenceError") =>
            /\ metadata = th[t].pre.metadata
            /\ index = th[t].pre.index

\* C9: reset_session that fails on a file write has rolled the in-memory
\* log and index back to their contents before the call.
C9_ResetRollsBack ==
    \A t \in Threads :
        (/\ up
         /\ th[t].op = "reset_session"
         /\ th[t].pc = "returned"
         /\ th[t].err = "PersistenceError") =>
            /\ metadata = th[t].pre.metadata
            /\ index = th[t].pre.index

\* C10: add_entry in which the embedding provider fails raises to its
\* caller (a request of process_query ends with status 500) and leaves the
\* in-memory log and index and both files as they were before the call.
C10_ProviderFailureWritesNothing ==
    \A t \in Threads :
        (/\ up
         /\ th[t].op = "add_entry"
         /\ th[t].pc = "returned"
         /\ th[t].err = "ProviderError") =>
            /\ Snapshot = th[t].pre
            /\ th[t].caller = "process_query" => th[t].http = 500

\* C10 witness: the provider failed in add_entry called by process_query on
\* a store that holds an entry in memory and in both files.
C10_Witness ==
    /\ up
    /\ th[1].op = "add_entry"
    /\ th[1].pc = "returned"
    /\ th[1].err = "ProviderError"
    /\ th[1].caller = "process_query"
    /\ Len(metadata) = 1
    /\ diskMeta.exists
    /\ diskIndex.exists

\* C11: search in which the embedding provider fails does not raise: it
\* returns normally, with an empty result list.
C11_SearchSurvivesProviderFailure ==
    \A t \in Threads :
        (up /\ th[t].op = "search" /\ th[t].pc = "returned") =>
            th[t].err # "ProviderError"

\* C12: when the search made by process_query raised, the request went on
\* with an empty conversation context: SQL generation ran with the empty
\* context, execution and analysis ran unless an earlier step reported an
\* error, and the result carries an empty memory_context and a non-empty
\* memory_warning.
C12_RetrievalFailureDegrades ==
    \A t \in Threads :
        pq[t].search_error # "" =>
            /\ pq[t].memory_context_text = ""
            /\ pq[t].memory_context = << >>
            /\ pq[t].memory_warning # ""
            /\ pq[t].stage \in {"sql", "execute", "analyze", "persist",
                                "persisting", "done"}
            /\ pq[t].stage = "done" =>
                  /\ InSeq("sql", pq[t].steps)
                  /\ pq[t].sql_context = ""
                  /\ pq[t].error \in {"", "Internal server error"} =>
                        InSeq("execute", pq[t].steps) /\ InSeq("analyze", pq[t].steps)
                  /\ pq[t].error \in {"sql", "execute", "analyze"} =>
                        pq[t].http = 400

\* C12 witness: a request whose search raised in the provider on a store
\* that holds an entry, and that still ran every step and returned 200.
C12_Witness ==
    /\ pq[1].stage = "done"
    /\ pq[1].search_error = "ProviderError"
    /\ pq[1].http = 200
    /\ pq[1].steps = << "search", "sql", "execute", "analyze", "add_entry" >>
    /\ Len(metadata) = 2

\* C13: a constructed store never holds an index of another dimension than
\* the configured embedding dimension: a load that finds such an index file
\* fails, whether or not the counts match.
C13_DimensionChecked == up => index.d = dimension

\* Some record of the log file holds no embedding vector.
LogLacksEmbedding ==
    \E i \in 1..Len(LoadMetadata(diskMeta)) :
        LoadMetadata(diskMeta)[i].embedding = NoEmbedding

\* C14: while the files' counts differ and a record of the log file lacks
\* its embedding, every attempt to construct the store fails in the rebuild:
\* no store is loaded and both files stay as they are.
C14_RebuildNeedsEmbeddings ==
    [][ (/\ ~up
         /\ \A dim \in Dimensions : LoadMismatch(dim)
         /\ LogLacksEmbedding) =>
            /\ ~up'
            /\ loadError' = "ValueError"
            /\ diskIndex' = diskIndex
            /\ diskMeta' = diskMeta ]_vars

\* C14 witness: a construction has failed in the rebuild, with two vectors
\* in the index file and one record, without embedding, in the log file.
C14_Witness ==
    /\ ~up
    /\ loadError = "ValueError"
    /\ LogLacksEmbedding
    /\ NTotal(diskIndex.index) = 2
    /\ Len(diskMeta.entries) = 1

\* Thread t has returned normally from search.
SearchReturned(t) ==
    up /\ th[t].op = "search" /\ th[t].pc = "returned" /\ th[t].err = ""

\* The stored entry a result entry was made from, and its ordinal.
SameEntry(r, e) ==
    /\ r.id = e.id
    /\ r.session_id = e.session_id
    /\ r.timestamp = e.timestamp
    /\ r.text = e.text

Ordinal(r) == CHOOSE i \in 1..Len(metadata) : SameEntry(r, metadata[i])

\* The result entry r went to the session bucket of the call of thread t.
InSessionBucket(t, r) == th[t].sid # "" /\ r.session_id = th[t].sid

\* C16: no entry search returns has a similarity below the call's
\* similarity_threshold.
C16_ThresholdFilter ==
    \A t \in Threads :
        SearchReturned(t) =>
            \A i \in 1..Len(th[t].result) :
                th[t].result[i].similarity >= th[t].thr

\* C16 witness: a search returned fewer entries than its buckets hold
\* while an entry that would have fitted the global bucket is below the
\* threshold.
C16_Witness ==
    /\ SearchReturned(1)
    /\ th[1].sid = "s1"
    /\ th[1].kg >= 1
    /\ \A i \in 1..Len(th[1].result) : th[1].result[i].session_id = "s1"
    /\ \E j \in 1..Len(metadata) :
          /\ metadata[j].session_id = "s2"
          /\ Score(index, th[1].emb, j) < th[1].thr

\* C17: the result of search lists the entries of the requested session
\* first, then those of the other sessions, each part in descending
\* similarity order, and no stored entry twice.
C17_SessionFirstDescending ==
    \A t \in Threads :
        SearchReturned(t) =>
            LET res == th[t].result
            IN  /\ \A i, j \in 1..Len(res) :
                      (i < j /\ InSessionBucket(t, res[j])) =>
                          InSessionBucket(t, res[i])
                /\ \A i, j \in 1..Len(res) :
                      (i < j /\ InSessionBucket(t, res[i]) = InSessionBucket(t, res[j])) =>
                          res[i].similarity >= res[j].similarity
                /\ \A i, j \in 1..Len(res) : i # j => res[i].id # res[j].id

\* C17 witness: a result of three entries, one of the requested session
\* followed by two others that are in descending order and of which the
\* first is more similar to the query than the session's entry.
C17_Witness ==
    /\ SearchReturned(1)
    /\ Len(th[1].result) = 3
    /\ InSessionBucket(1, th[1].result[1])
    /\ ~InSessionBucket(1, th[1].result[2])
    /\ th[1].result[2].similarity > th[1].result[1].similarity
    /\ th[1].result[2].similarity > th[1].result[3].similarity

\* The number of entries of a result that went to the session bucket.
SessionCount(t) ==
    Cardinality({i \in 1..Len(th[t].result) : InSessionBucket(t, th[t].result[i])})

\* C18: the result of search holds at most top_k_session entries of the
\* requested session and at most top_k_global other entries, so at most
\* top_k_session + top_k_global entries.
C18_BucketCapacities ==
    \A t \in Threads :
        SearchReturned(t) =>
            /\ SessionCount(t) <= th[t].ks
            /\ Len(th[t].result) - SessionCount(t) <= th[t].kg
            /\ Len(th[t].result) <= th[t].ks + th[t].kg

\* C18 witness: both buckets are full, and the store holds a further entry
\* of the requested session that passes the threshold.
C18_Witness ==
    /\ SearchReturned(1)
    /\ th[1].ks >= 1
    /\ SessionCount(1) = th[1].ks
    /\ Len(th[1].result) = th[1].ks + th[1].kg
    /\ \E j \in 1..Len(metadata) :
          /\ metadata[j].session_id = th[1].sid
          /\ Score(index, th[1].emb, j) >= th[1].thr
          /\ \A i \in 1..Len(th[1].result) : th[1].result[i].id # metadata[j].id

\* C19: search asks the index once, for min(n, 2 * max(top_k_session,
\* top_k_global)) candidates (n stored entries): every entry it returns is
\* one of that many highest-scoring entries.
C19_SinglePassWindow ==
    \A t \in Threads :
        SearchReturned(t) /\ metadata # << >> =>
            LET window == Min(Len(metadata), 2 * Max(th[t].ks, th[t].kg))
            IN  /\ Len(th[t].hits) = window
                /\ \A i \in 1..Len(th[t].result) :
                      /\ \E k \in 1..window :
                            th[t].hits[k].idx = Ordinal(th[t].result[i])
                      /\ Cardinality({j \in 1..Len(metadata) :
                                        Score(index, th[t].emb, j) >
                                            th[t].result[i].similarity}) < window

\* C19 witness: an entry that passes the threshold is not returned although
\* its bucket is left with room, because it ranks beyond the window.
C19_Witness ==
    /\ SearchReturned(1)
    /\ \E j \in 1..Len(metadata) :
          /\ Score(index, th[1].emb, j) >= th[1].thr
          /\ \A i \in 1..Len(th[1].result) : th[1].result[i].id # metadata[j].id
          /\ \A k \in 1..Len(th[1].hits) : th[1].hits[k].idx # j
          /\ IF th[1].sid # "" /\ metadata[j].session_id = th[1].sid
             THEN SessionCount(1) < th[1].ks
             ELSE Len(th[1].result) - SessionCount(1) < th[1].kg

\* C20: two entries of the same bucket with equal similarity are returned
\* in ascending ordinal order.
C20_TieBreakAscendingOrdinal ==
    \A t \in Threads :
        SearchReturned(t) =>
            \A i, j \in 1..Len(th[t].result) :
                (/\ i < j
                 /\ th[t].result[i].similarity = th[t].result[j].similarity
                 /\ InSessionBucket(t, th[t].result[i]) =
                        InSessionBucket(t, th[t].result[j])) =>
                    Ordinal(th[t].result[i]) < Ordinal(th[t].result[j])

\* C15 as claimed: on a store of five entries of s1 and five of s2, all
\* with similarity at least 0.9 to the query, search with session s1,
\* capacities 3 and 2 and threshold 0.5 returns exactly three entries of s1
\* followed by exactly two of s2, whatever the ranking of the ten entries.
C15_QuotaExact ==
    SearchReturned(1) =>
        /\ Len(th[1].result) = 5
        /\ \A i \in 1..3 : th[1].result[i].session_id = "s1"
        /\ \A i \in 4..5 : th[1].result[i].session_id = "s2"

\* The number of entries of session sid among the candidates of thread t.
CandidatesOf(t, sid) ==
    Cardinality({k \in 1..Len(th[t].hits) :
                   metadata[th[t].hits[k].idx].session_id = sid})

\* C15 amended: search looks at the six highest-ranked of the ten entries
\* only; it returns the entries of s1 among those six, at most three,
\* followed by the entries of s2 among them, at most two.
C15_QuotaWithinWindow ==
    SearchReturned(1) =>
        /\ Len(th[1].hits) = 6
        /\ SessionCount(1) = Min(3, CandidatesOf(1, "s1"))
        /\ Len(th[1].result) - SessionCount(1) = Min(2, CandidatesOf(1, "s2"))
        /\ \A i \in 1..Len(th[1].result) :
              th[1].result[i].session_id = "s1" <=> i <= SessionCount(1)
        /\ \A i \in 1..Len(th[1].result) : th[1].result[i].similarity = 100

\* C15 witness: the six candidates hold five entries of s1, and the result
\* is three entries of s1 followed by one of s2.
C15_Witness ==
    /\ SearchReturned(1)
    /\ CandidatesOf(1, "s1") = 5
    /\ Len(th[1].result) = 4
    /\ th[1].result[3].session_id = "s1"
    /\ th[1].result[4].session_id = "s2"

\* C21: after add_entry has returned an entry and the store has been loaded
\* again from its files, a search for that entry's text (search's default
\* limits 5, 5 and 0.0, no session) returns that entry first, with
\* similarity 1.0.
C21_RoundTrip ==
    \A t \in Threads :
        (LoadedAfterKillAt(t, "returned") /\ killed[t].op = "add_entry") =>
            LET e == killed[t].entry
                outcomes == SearchOutcomes(e.text, "", 5, 5, 0)
            IN  /\ outcomes # {}
                /\ \A res \in outcomes :
                      /\ res # << >>
                      /\ res[1].id = e.id
                      /\ res[1].similarity = 100

\* Thread t has returned normally from the operation op.
Returned(t, op) ==
    up /\ th[t].op = op /\ th[t].pc = "returned" /\ th[t].err = ""

\* seq is sub with further elements in between: sub keeps seq's order.
RECURSIVE IsSubsequence(_, _)
IsSubsequence(sub, seq) ==
    IF sub = << >> THEN TRUE
    ELSE IF seq = << >> THEN FALSE
    ELSE IF Head(sub) = Head(seq) THEN IsSubsequence(Tail(sub), Tail(seq))
    ELSE IsSubsequence(sub, Tail(seq))

\* What C22 says of thread t's reset_session once it has returned.
ResetPostcondition(t) ==
    LET before == th[t].pre.metadata
    IN  /\ \A i \in 1..Len(metadata) : metadata[i].session_id # th[t].sid
        /\ \A i \in 1..Len(before) :
              before[i].session_id # th[t].sid => InSeq(before[i], metadata)
        /\ IsSubsequence(metadata, before)
        /\ metadata # before =>
              /\ index = RebuiltIndex(metadata, dimension)
              /\ DiskMatchesMemory

\* C22 as stated: for every session_id s, when reset_session(s) has
\* returned, the log holds no entry of s and every entry of the other
\* sessions, in their order before the call; if entries were removed, the
\* index holds the survivors' embeddings in log order and both files hold
\* what memory holds.
C22_ResetRemovesSession ==
    \A t \in Threads : Returned(t, "reset_session") => ResetPostcondition(t)

\* C22 amended: the same of every non-empty session_id s; with an empty
\* session_id the call changes nothing.
C22_ResetRemovesNamedSession ==
    \A t \in Threads :
        Returned(t, "reset_session") =>
            IF th[t].sid # "" THEN ResetPostcondition(t)
            ELSE Snapshot = th[t].pre

\* C22 witness: reset_session has removed the middle one of three entries;
\* the two survivors are of other sessions.
C22_Witness ==
    /\ Returned(1, "reset_session")
    /\ th[1].sid # ""
    /\ Len(th[1].pre.metadata) = 3
    /\ th[1].pre.metadata[2].session_id = th[1].sid
    /\ Len(metadata) = 2
    /\ NTotal(index) = 2
    /\ metadata[1].timestamp > metadata[2].timestamp

\* The log holds an entry of the session sid.
HasSession(log, sid) == \E i \in 1..Len(log) : log[i].session_id = sid

\* C23: when reset_session of a session without a stored entry has returned,
\* the log, the index and both files are what they were at the call.
C23_ResetWithoutMatchIsNoOp ==
    \A t \in Threads :
        (Returned(t, "reset_session") /\ ~HasSession(th[t].pre.metadata, th[t].sid))
            => Snapshot = th[t].pre

\* C23 witness: such a call has returned on a store whose metadata file
\* lacks an entry of the log, so that a write would have shown.
C23_Witness ==
    /\ Returned(1, "reset_session")
    /\ metadata # << >>
    /\ ~HasSession(th[1].pre.metadata, th[1].sid)
    /\ diskMeta.entries # metadata

\* C24: when add_entry or reset_session has returned normally, the metadata
\* file holds the in-memory log and the index file the in-memory index (a
\* file never written counts as empty), and the two have the same size, so
\* that a store constructed from the files holds the same entries in the
\* same order without a rebuild.
C24_DiskEqualsMemoryOnReturn ==
    \A t \in Threads :
        (Returned(t, "add_entry") \/ Returned(t, "reset_session")) =>
            /\ LoadMetadata(diskMeta) = metadata
            /\ LoadIndex(diskIndex, dimension) = index
            /\ NTotal(LoadIndex(diskIndex, dimension)) = Len(LoadMetadata(diskMeta))

\* C25: while the process runs, a step leaves the log as it is, or is a
\* step of add_entry that keeps every entry at its position and puts one
\* entry at the end, or is a step of reset_session that removes entries and
\* keeps the others unchanged and in order.
C25_EntriesImmutable ==
    [][(up /\ up') =>
          \/ metadata' = metadata
          \/ \E t \in Threads :
                /\ th[t].op = "add_entry"
                /\ Len(metadata') = Len(metadata) + 1
                /\ SubSeq(metadata', 1, Len(metadata)) = metadata
          \/ \E t \in Threads :
                /\ th[t].op = "reset_session"
                /\ Len(metadata') < Len(metadata)
                /\ IsSubsequence(metadata', metadata)]_vars

\* C25 witness: add_entry has appended its entry to a log that held one.
C25_Witness ==
    /\ up
    /\ th[1].op = "add_entry"
    /\ th[1].pc = "add_index"
    /\ Len(metadata) = 2
    /\ metadata[2] = th[1].entry
    /\ metadata[1] = th[1].pre.metadata[1]

\* The positions of the call named step among the calls of a request.
StepsOf(steps, step) == {i \in 1..Len(steps) : steps[i] = step}

\* The steps of the primary task.
PrimarySteps == {"sql", "execute", "analyze"}

\* C26: in every request of process_query, search is called before SQL
\* generation (and is called whenever SQL generation runs in a request
\* without reset_session); add_entry is called at most once, and only after
\* SQL generation, execution and analysis, in this order, none of which
\* reported an error; when one of them reported an error, add_entry is not
\* called.
C26_PersistOnlyAfterSuccess ==
    \A t \in Threads :
        LET steps == pq[t].steps
        IN  /\ \A i \in StepsOf(steps, "search"), j \in StepsOf(steps, "sql") : i < j
            /\ (~pq[t].reset_session /\ StepsOf(steps, "sql") # {})
                  => StepsOf(steps, "search") # {}
            /\ Cardinality(StepsOf(steps, "add_entry")) <= 1
            /\ \A i \in StepsOf(steps, "add_entry") :
                  /\ \E a, b, c \in 1..(i - 1) :
                        /\ a < b
                        /\ b < c
                        /\ steps[a] = "sql"
                        /\ steps[b] = "execute"
                        /\ steps[c] = "analyze"
                  /\ pq[t].error \notin PrimarySteps
            /\ pq[t].error \in PrimarySteps =>
                  /\ StepsOf(steps, "add_entry") = {}
                  /\ th[t].op # "add_entry"

\* C26 witness: a request ended with the error of the analysis, after
\* search, SQL generation and execution, and without add_entry.
C26_Witness ==
    /\ pq[1].stage = "done"
    /\ pq[1].http = 400
    /\ pq[1].error = "analyze"
    /\ pq[1].steps = << "search", "sql", "execute", "analyze" >>

\* a holds the elements of b, each as often as b does.
IsPermutation(a, b) ==
    /\ Len(a) = Len(b)
    /\ \E f \in [1..Len(a) -> 1..Len(a)] :
          /\ \A i, j \in 1..Len(a) : f[i] = f[j] => i = j
          /\ \A i \in 1..Len(a) : a[i] = b[f[i]]

\* The result of thread t's get_session_history holds exactly the log's
\* entries of the session, each once, in ascending order of timestamp.
HistoryExact(t) ==
    /\ IsPermutation(th[t].result,
                     SelectSeq(metadata, LAMBDA e : e.session_id = th[t].sid))
    /\ \A i, j \in 1..Len(th[t].result) :
          i < j => th[t].result[i].timestamp <= th[t].result[j].timestamp

\* C27 as stated: for every id, get_session_history(id) returns exactly the
\* stored entries whose session_id is id, each once, in ascending order of
\* timestamp, wherever they sit in the log.
C27_HistoryExact ==
    \A t \in Threads : Returned(t, "get_session_history") => HistoryExact(t)

\* C27 amended: the same of every non-empty id; with an empty id the result
\* is empty.
C27_HistoryExactForNamedSession ==
    \A t \in Threads :
        Returned(t, "get_session_history") =>
            IF th[t].sid # "" THEN HistoryExact(t) ELSE th[t].result = << >>

\* C27 witness: a history of two entries or more that the log holds in
\* another order.
C27_Witness ==
    /\ Returned(1, "get_session_history")
    /\ th[1].sid # ""
    /\ Len(th[1].result) >= 2
    /\ th[1].result # SelectSeq(metadata, LAMBDA e : e.session_id = th[1].sid)

\* The positions of the log's entries of the session sid.
EntriesOf(sid) == {i \in 1..Len(metadata) : metadata[i].session_id = sid}

\* The sum of the counts of the records.
RECURSIVE SumCounts(_)
SumCounts(records) ==
    IF records = << >> THEN 0
    ELSE Head(records).count + SumCounts(Tail(records))

\* C28: list_sessions returns one record for each session_id of the log and
\* no other; its count is the number of the session's entries and its
\* latest_timestamp their greatest timestamp; the records descend by
\* latest_timestamp and their counts add up to the length of the log.
C28_SessionSummaries ==
    \A t \in Threads :
        Returned(t, "list_sessions") =>
            LET res == th[t].result
            IN  /\ \A i \in 1..Len(metadata) :
                      Cardinality({k \in 1..Len(res) :
                                     res[k].session_id = metadata[i].session_id}) = 1
                /\ \A k \in 1..Len(res) :
                      /\ EntriesOf(res[k].session_id) # {}
                      /\ res[k].count = Cardinality(EntriesOf(res[k].session_id))
                      /\ \E i \in EntriesOf(res[k].session_id) :
                            metadata[i].timestamp = res[k].latest_timestamp
                      /\ \A i \in EntriesOf(res[k].session_id) :
                            metadata[i].timestamp <= res[k].latest_timestamp
                /\ \A j, k \in 1..Len(res) :
                      j < k => res[j].latest_timestamp >= res[k].latest_timestamp
                /\ SumCounts(res) = Len(metadata)

\* C28 witness: two sessions or more, one of them with two entries, listed
\* in another order than the one of their first appearance in the log.
C28_Witness ==
    /\ Returned(1, "list_sessions")
    /\ Len(th[1].result) >= 2
    /\ \E k \in 1..Len(th[1].result) : th[1].result[k].count = 2
    /\ th[1].result[1].session_id # metadata[1].session_id

\* C29: while the process runs, no two entries of the log have the same
\* id, and a step that removes no entry leaves the id of every stored entry
\* as it is.
C29_IdsDistinctAndFixed ==
    /\ [](up => \A i, j \in 1..Len(metadata) :
                   i # j => metadata[i].id # metadata[j].id)
    /\ [][(up /\ up' /\ Len(metadata') >= Len(metadata)) =>
              \A i \in 1..Len(metadata) : metadata'[i].id = metadata[i].id]_vars

\* C30: the entry add_entry has stored and returned has the session_id of
\* the call, the id and the timestamp drawn by the call and the embedding
\* computed from the call's text, whatever extra_metadata holds.
C30_CoreFieldsKept ==
    \A t \in Threads :
        Returned(t, "add_entry") =>
            /\ metadata # << >>
            /\ metadata[Len(metadata)] = th[t].entry
            /\ th[t].entry.session_id = th[t].sid
            /\ th[t].entry.id = nextId
            /\ th[t].entry.timestamp = clock
            /\ th[t].entry.embedding = th[t].emb

\* The request of thread t has reset_session=True and a session_id.
ResetRequested(t) ==
    up /\ pq[t].reset_session /\ pq[t].session_id # "" /\ pq[t].query # ""

\* C31: a request with reset_session=True and a session_id s calls no search
\* and has an empty memory_context; while its primary task runs, the log
\* holds no entry of s; when it has ended without error, the log holds one
\* entry of s, the last one of the log, with the text and id of this request.
C31_ResetThenFreshHistory ==
    \A t \in Threads :
        ResetRequested(t) =>
            LET s == pq[t].session_id
                history == SelectSeq(metadata, LAMBDA e : e.session_id = s)
            IN  /\ StepsOf(pq[t].steps, "search") = {}
                /\ pq[t].memory_context = << >>
                /\ pq[t].memory_context_text = ""
                /\ pq[t].stage \in {"sql", "execute", "analyze", "persist"} =>
                      /\ history = << >>
                      /\ StepsOf(pq[t].steps, "reset_session") = {1}
                /\ (pq[t].stage = "done" /\ pq[t].http = 200) =>
                      /\ Len(history) = 1
                      /\ history[1] = metadata[Len(metadata)]
                      /\ history[1].text = pq[t].query
                      /\ history[1].id = nextId

\* C31 witness: such a request has ended with 200 after an earlier request
\* had drawn an id; the log holds the one entry of this request.
C31_Witness ==
    /\ ResetRequested(1)
    /\ pq[1].stage = "done"
    /\ pq[1].http = 200
    /\ pq[1].steps = << "reset_session", "sql", "execute", "analyze", "add_entry" >>
    /\ kills = 0
    /\ Len(metadata) = 1
    /\ metadata[1].id = 2

\* The operations that read the store.
Reads == {"search", "list_sessions", "get_session_history"}

\* C32: when search, list_sessions or get_session_history has returned or
\* raised, the log, the index and both files are what they were at the call,
\* and no entry returned by search has the key "embedding".
C32_ReadsChangeNothing ==
    \A t \in Threads :
        (up /\ th[t].pc = "returned" /\ th[t].op \in Reads) =>
            /\ Snapshot = th[t].pre
            /\ th[t].op = "search" =>
                  \A i \in 1..Len(th[t].result) :
                      "embedding" \notin DOMAIN th[t].result[i]

\* C32 witness: search has returned an entry of a log whose entries hold
\* their embeddings.
C32_Witness ==
    /\ Returned(1, "search")
    /\ th[1].result # << >>
    /\ \E i \in 1..Len(metadata) :
          /\ metadata[i].id = th[1].result[1].id
          /\ metadata[i].embedding # NoEmbedding

\* The candidates of thread t's search that name an entry of the log and
\* reach the threshold, in the order the index gave them.
PassingHits(t) ==
    SelectSeq(th[t].hits,
              LAMBDA h : /\ h.idx >= 1
                         /\ h.idx <= Len(metadata)
                         /\ h.score >= th[t].thr)

\* C33: a search without session_id returns the first top_k_global
\* candidates that reach the threshold, in the index's order, and no more,
\* whatever top_k_session is and whatever session_id the entries have.
C33_NoSessionGlobalOnly ==
    \A t \in Threads :
        (Returned(t, "search") /\ th[t].sid = "") =>
            LET passing == PassingHits(t)
                n == Min(th[t].kg, Len(passing))
            IN  /\ Len(th[t].result) <= th[t].kg
                /\ th[t].result =
                      [i \in 1..n |->
                          ResultEntry(metadata[passing[i].idx], passing[i].score)]

\* C33 witness: such a search, with top_k_session above top_k_global, has
\* returned top_k_global entries, the first one stored with an empty
\* session_id, while more candidates reached the threshold.
C33_Witness ==
    /\ Returned(1, "search")
    /\ th[1].sid = ""
    /\ th[1].ks > th[1].kg
    /\ Len(th[1].result) = th[1].kg
    /\ th[1].result[1].session_id = ""
    /\ Len(PassingHits(1)) > th[1].kg

\* C34: a search called on an empty log has returned the empty list without
\* an error and has never reached the embedding provider, which can fail
\* whenever it is called.
C34_EmptyStoreSearchSkipsProvider ==
    \A t \in Threads :
        (up /\ th[t].op = "search" /\ th[t].pre.metadata = << >>) =>
            /\ th[t].pc = "returned"
            /\ th[t].err = ""
            /\ th[t].result = << >>
            /\ th[t].emb = NoEmbedding

\* C34 witness: a search has returned on a store that a reset_session has
\* emptied.
C34_Witness ==
    /\ Returned(1, "search")
    /\ metadata = << >>
    /\ th[1].result = << >>
    /\ diskMeta = [exists |-> TRUE, entries |-> << >>]

\* C35: with an empty session_id (None is empty too), reset_session leaves
\* the log, the index and both files as they were and get_session_history
\* returns the empty sequence, also when the log holds entries with an empty
\* session_id; add_entry stores such an entry and list_sessions has a record
\* for the empty session_id whenever the log holds one.
C35_EmptySessionId ==
    \A t \in Threads :
        /\ (Returned(t, "reset_session") /\ th[t].sid = "") => Snapshot = th[t].pre
        /\ (Returned(t, "get_session_history") /\ th[t].sid = "") =>
              th[t].result = << >>
        /\ (Returned(t, "add_entry") /\ th[t].sid = "" /\ th[t].extra = NoExtra) =>
              /\ metadata # << >>
              /\ metadata[Len(metadata)].session_id = ""
              /\ metadata[Len(metadata)].id = th[t].entry.id
        /\ (Returned(t, "list_sessions") /\ HasSession(metadata, "")) =>
              \E k \in 1..Len(th[t].result) :
                  /\ th[t].result[k].session_id = ""
                  /\ th[t].result[k].count = Cardinality(EntriesOf(""))

\* C35 witness: reset_session with an empty session_id has returned on a log
\* that holds an entry with an empty session_id and one of a named session.
C35_Witness ==
    /\ Returned(1, "reset_session")
    /\ th[1].sid = ""
    /\ HasSession(metadata, "")
    /\ HasSession(metadata, "s1")

====
